---- MODULE Spec2Model ----
(***************************************************************************)
(* Model of the trajectory utilities of dynamo:                            *)
(*   dynamo/tools/utils.py   remove_redundant_points_trajectory,           *)
(*                           arclength_sampling, integrate_vf,             *)
(*                           integrate_vf_ivp                              *)
(*   dynamo/prediction/least_action_path.py   get_init_path, action,       *)
(*                           action_grad, reshape_path, least_action_path, *)
(*                           LeastActionPath                               *)
(*   dynamo/tools/fate.py    fate                                          *)
(*                                                                         *)
(* Real numbers are exact rationals <<numerator, denominator>> in lowest   *)
(* terms with a positive denominator.  A point (state vector) is a         *)
(* sequence of rationals, an array a sequence of rows.                     *)
(***************************************************************************)
EXTENDS Integers, Sequences, FiniteSets, TLC

VARIABLES
    prog,       \* which function the behaviour is a call of
    pc,         \* position of the call: "start", loop labels, "done", "raised"
    X,          \* arclength_sampling / remove_redundant: the input path
    tol,        \* remove_redundant_points_trajectory: tol
    fres,       \* remove_redundant_points_trajectory: returned (X, arclength, discard)
    step_length,\* arclength_sampling: step_length
    tgrid,      \* arclength_sampling: t (the parallel times) or NoValue
    Y,          \* arclength_sampling: Y, the emitted points
    T,          \* arclength_sampling: T, the emitted times or NoValue
    x0,         \* arclength_sampling: x0
    t0,         \* arclength_sampling: t0
    i,          \* arclength_sampling: i
    terminate,  \* arclength_sampling: terminate
    arclength,  \* arclength_sampling: arclength
    gip,        \* get_init_path: its arguments, locals and result, a record
    call,       \* integrate_vf, integrate_vf_ivp: the arguments, a record
    interpolation_num, \* integrate_vf: interpolation_num, reassigned in the loop
    valid_ids,  \* integrate_vf: valid_ids
    t_trans,    \* integrate_vf: t_trans
    t,          \* integrate_vf: t, the argument, reassigned after interpolation
    fate_args,  \* fate: the arguments and n_steps, a record
    ret,        \* integrate_vf, integrate_vf_ivp, fate: the returned tuple
    act,        \* action: its arguments, the array x and the returned value
    lap,        \* least_action_path: its arguments, locals and result
    obj,        \* LeastActionPath: the arguments and fields of the object
    ec,         \* einsum_correlation: its arguments, locals and result
    exc         \* the exception a call ended with, "" when none

\* Y, T and i are locals of arclength_sampling and of the integrators alike
filterVars == <<tol, fres>>
samplerVars == <<X, step_length, tgrid, x0, t0, terminate, arclength>>
integrateVars == <<call, interpolation_num, valid_ids, t_trans, t, ret>>
lapVars == <<act, lap, obj>>

vars == <<prog, pc, Y, T, i, filterVars, samplerVars, gip, integrateVars,
          fate_args, lapVars, ec, exc>>

\* None, for a variable that holds a number, a point or an array
NoValue == <<>>

----------------------------------------------------------------------------
(* Exact arithmetic standing for the float arithmetic of numpy.            *)

Abs(n) == IF n < 0 THEN -n ELSE n

RECURSIVE GCD(_, _)
GCD(a, b) == IF b = 0 THEN a ELSE GCD(b, a % b)

Rat(n, d) ==
    LET g == GCD(Abs(n), Abs(d))
        s == IF d < 0 THEN -1 ELSE 1
    IN  <<(s * n) \div g, (s * d) \div g>>

RInt(k) == <<k, 1>>
RZero == RInt(0)
RAdd(a, b) == Rat(a[1] * b[2] + b[1] * a[2], a[2] * b[2])
RSub(a, b) == Rat(a[1] * b[2] - b[1] * a[2], a[2] * b[2])
RMul(a, b) == Rat(a[1] * b[1], a[2] * b[2])
RDiv(a, b) == Rat(a[1] * b[2], a[2] * b[1])
RLt(a, b) == a[1] * b[2] < b[1] * a[2]
RLe(a, b) == a[1] * b[2] <= b[1] * a[2]

ISqrt(n) == CHOOSE k \in 0..n : k * k = n
RSqrt(a) == <<ISqrt(a[1]), ISqrt(a[2])>>

VSub(u, v) == [k \in 1..Len(u) |-> RSub(u[k], v[k])]
VAdd(u, v) == [k \in 1..Len(u) |-> RAdd(u[k], v[k])]
VScale(r, v) == [k \in 1..Len(v) |-> RMul(r, v[k])]

RECURSIVE RSum(_)
RSum(s) == IF s = <<>> THEN RZero ELSE RAdd(Head(s), RSum(Tail(s)))

\* np.linalg.norm of a vector
Norm(v) == RSqrt(RSum([k \in 1..Len(v) |-> RMul(v[k], v[k])]))

Pt(a, b) == <<RInt(a), RInt(b)>>

----------------------------------------------------------------------------
(* Bounds of the model.                                                    *)

MaxLen == 4          \* longest input path
MaxArc == 30         \* arclength_sampling is followed while arclength <= MaxArc

\* the corners of a 3 x 4 rectangle: every pairwise distance is rational
Points == {Pt(0, 0), Pt(3, 0), Pt(0, 4), Pt(3, 4)}

RECURSIVE SeqsUpTo(_, _)
SeqsUpTo(S, n) ==
    IF n = 0 THEN {<<>>}
    ELSE LET shorter == SeqsUpTo(S, n - 1)
         IN  shorter \cup {Append(s, e) : s \in {q \in shorter : Len(q) = n - 1}, e \in S}

Paths == SeqsUpTo(Points, MaxLen) \ {<<>>}
Tols == {RInt(1), RInt(4), RInt(5)}
Steps == {RInt(2), Rat(5, 2), RInt(8)}

\* the parallel times handed to arclength_sampling for a path of n points:
\* none, np.arange(n), a grid with repeated times, a decreasing grid
TimeGrids(n) ==
    {NoValue,
     [k \in 1..n |-> RInt(k - 1)],
     [k \in 1..n |-> RInt(2 * (k \div 2))],
     [k \in 1..n |-> RInt(n - k)]}

----------------------------------------------------------------------------
(* remove_redundant_points_trajectory(X, tol, output_discard=True)         *)

\* a filter that marks the earlier point of a close pair: discard[i] = True
DiscardEarlierOfPair(P, tl) ==
    [k \in 1..Len(P) |-> k < Len(P) /\ RLt(Norm(VSub(P[k + 1], P[k])), tl)]

\* the discard mask: entry i + 1 is set when X[i + 1] is closer than tol to X[i]
DiscardNeighbour(P, tl) ==
    [k \in 1..Len(P) |-> k > 1 /\ RLt(Norm(VSub(P[k], P[k - 1])), tl)]

DiscardMask(P, tl) ==
    IF Len(P) > 1 THEN DiscardNeighbour(P, tl) ELSE [k \in 1..Len(P) |-> FALSE]

\* X[~discard]
RECURSIVE Compress(_, _)
Compress(P, mask) ==
    IF P = <<>> THEN <<>>
    ELSE IF Head(mask) THEN Compress(Tail(P), Tail(mask))
         ELSE <<Head(P)>> \o Compress(Tail(P), Tail(mask))

\* the arclength loop over the filtered path
RECURSIVE ArcLen(_, _)
ArcLen(P, k) ==
    IF k < 2 THEN RZero
    ELSE RAdd(ArcLen(P, k - 1), Norm(VSub(P[k], P[k - 1])))

RemoveRedundant(P, tl) ==
    LET discard == DiscardMask(P, tl)
        F == Compress(P, discard)
    IN  [X |-> F, arclength |-> ArcLen(F, Len(F)), discard |-> discard]

----------------------------------------------------------------------------
(* arclength_sampling(X, step_length, t)                                   *)

\* X[k] with the 0-based index of the source
At(P, k) == P[k + 1]

\* the for loop with the interpolation always based at X[j - 1], never at x0
RECURSIVE ForJFromVertex(_, _, _)
ForJFromVertex(j, l, d) ==
    IF j >= Len(X) - 1
    THEN [hit |-> FALSE, l |-> l, d |-> d]
    ELSE LET tangent == IF j = i THEN VSub(At(X, j), x0)
                                 ELSE VSub(At(X, j), At(X, j - 1))
             dj == Norm(tangent)
         IN  IF RLe(step_length, RAdd(l, dj))
             THEN LET x == At(X, j - 1)
                      y == VAdd(x, VScale(RDiv(RSub(step_length, l), dj), tangent))
                      tau0 == IF j = i THEN t0 ELSE At(tgrid, j - 1)
                      tau == IF tgrid = NoValue THEN NoValue
                             ELSE RAdd(tau0, RMul(RDiv(RSub(step_length, l), dj),
                                                  RSub(At(tgrid, j), tau0)))
                  IN  [hit |-> TRUE, l |-> l, d |-> dj, j |-> j, y |-> y, tau |-> tau]
             ELSE ForJFromVertex(j + 1, RAdd(l, dj), dj)

\* the for loop "for j in range(i, len(X) - 1)" entered at index j with the
\* accumulated length l; d is the last segment length computed so far
RECURSIVE ForJ(_, _, _)
ForJ(j, l, d) ==
    IF j >= Len(X) - 1
    THEN [hit |-> FALSE, l |-> l, d |-> d]
    ELSE LET tangent == IF j = i THEN VSub(At(X, j), x0)
                                 ELSE VSub(At(X, j), At(X, j - 1))
             dj == Norm(tangent)
         IN  IF RLe(step_length, RAdd(l, dj))
             THEN LET x == IF j = i THEN x0 ELSE At(X, j - 1)
                      y == VAdd(x, VScale(RDiv(RSub(step_length, l), dj), tangent))
                      tau0 == IF j = i THEN t0 ELSE At(tgrid, j - 1)
                      tau == IF tgrid = NoValue THEN NoValue
                             ELSE RAdd(tau0, RMul(RDiv(RSub(step_length, l), dj),
                                                  RSub(At(tgrid, j), tau0)))
                  IN  [hit |-> TRUE, l |-> l, d |-> dj, j |-> j, y |-> y, tau |-> tau]
             ELSE ForJ(j + 1, RAdd(l, dj), dj)

\* lines 1471-1477: the locals of arclength_sampling before its while loop
SamplerEntry(P, sl, tt) ==
    /\ X' = P
    /\ step_length' = sl
    /\ tgrid' = tt
    /\ Y' = <<>>
    /\ x0' = At(P, 0)
    /\ T' = IF tt # NoValue THEN <<>> ELSE NoValue
    /\ t0' = IF tt # NoValue THEN At(tt, 0) ELSE NoValue
    /\ i' = 1
    /\ terminate' = FALSE
    /\ arclength' = RZero

\* one iteration of "while i < len(X) - 1 and not terminate"
OuterIter ==
    /\ pc = "while"
    /\ i < Len(X) - 1 /\ ~terminate
    /\ RLe(arclength, RInt(MaxArc))
    /\ LET r == ForJ(i, RZero, RZero)
       IN  /\ IF r.hit
              THEN /\ Y' = Append(Y, r.y)
                   /\ T' = IF tgrid # NoValue THEN Append(T, r.tau) ELSE T
                   /\ t0' = IF tgrid # NoValue THEN r.tau ELSE t0
                   /\ x0' = r.y
                   /\ i' = r.j
              ELSE UNCHANGED <<Y, T, t0, x0, i>>
           /\ arclength' = RAdd(arclength, step_length)
           /\ terminate' = IF RLt(RAdd(r.l, r.d), step_length) THEN TRUE ELSE terminate
    /\ UNCHANGED <<prog, pc, X, step_length, tgrid, filterVars, gip, integrateVars,
                   fate_args, exc>>
    /\ UNCHANGED lapVars
    /\ UNCHANGED ec

\* the while condition fails: return np.array(Y), arclength(, T)
SamplerReturn ==
    /\ pc = "while"
    /\ ~(i < Len(X) - 1 /\ ~terminate)
    /\ pc' = IF prog = "get_init_path" THEN "sampled" ELSE "done"
    /\ UNCHANGED <<prog, Y, T, i, filterVars, samplerVars, gip, integrateVars,
                   fate_args, exc>>
    /\ UNCHANGED lapVars
    /\ UNCHANGED ec

----------------------------------------------------------------------------
(* The calls.                                                              *)

\* values of the locals of a function that is not running
NoFilterResult == [X |-> NoValue, arclength |-> NoValue, discard |-> NoValue]

NoIds == <<-1>>
NoNum == -1
NoCall == [init_states |-> NoValue, ndim |-> 0, t |-> NoValue,
           integration_direction |-> "", f |-> NoValue,
           interpolation_num |-> NoNum, average |-> FALSE]
NoReturn == [t |-> NoValue, Y |-> NoValue]
NoFateArgs == [init_states |-> NoValue, t_end |-> 0, step_size |-> NoValue,
               direction |-> "", average |-> FALSE, n_steps |-> 0]
NoInitPath == [G |-> NoValue, start |-> NoValue, end |-> NoValue,
               interpolation_num |-> NoNum, path |-> NoValue,
               arclen |-> NoValue, result |-> NoValue]

\* a vector field f(x) = k * x + c; NoField is None
NoField == [k |-> NoValue, c |-> NoValue]
NoAct == [path |-> NoValue, vf_func |-> NoField, D |-> NoValue, dt |-> NoValue,
          x |-> NoValue, value |-> NoValue]
NoLapReturn == [path_sol |-> NoValue, dt_sol |-> NoValue, action_opt |-> NoValue,
                sol_dict |-> NoValue]
NoLap == [start |-> NoValue, end |-> NoValue, vf_func |-> NoField,
          jac_func |-> NoField, n_points |-> 0, init_path |-> NoValue,
          D |-> NoValue, dt_0 |-> NoValue, dim |-> 0, path_0 |-> NoValue,
          objective |-> NoValue, jac_passed |-> FALSE, ret |-> NoLapReturn]
NoObj == [X |-> NoValue, t |-> NoValue, func |-> NoField, D |-> NoValue,
          dt |-> NoValue, _action |-> NoValue, i |-> 0,
          n_eval |-> 0, query |-> NoValue, out |-> NoValue]

LapIdle == act = NoAct /\ lap = NoLap /\ obj = NoObj

NoCorr == [X |-> NoValue, Y_i |-> NoValue, type |-> "", X_norm |-> NoValue,
           Y_norm |-> NoValue, corr |-> NoValue]

SamplerIdle ==
    /\ step_length = NoValue /\ tgrid = NoValue /\ Y = NoValue /\ T = NoValue
    /\ x0 = NoValue /\ t0 = NoValue /\ i = 0 /\ terminate = FALSE
    /\ arclength = NoValue

IntegrateIdle ==
    /\ call = NoCall /\ interpolation_num = NoNum /\ valid_ids = NoIds
    /\ t_trans = NoValue /\ t = NoValue /\ ret = NoReturn
    /\ fate_args = NoFateArgs

\* a call remove_redundant_points_trajectory(X, tol, output_discard=True)
InitFilter ==
    /\ prog = "remove_redundant_points_trajectory"
    /\ pc = "call"
    /\ X \in Paths
    /\ tol \in Tols
    /\ fres = NoFilterResult
    /\ gip = NoInitPath
    /\ SamplerIdle
    /\ IntegrateIdle
    /\ LapIdle
    /\ ec = NoCorr
    /\ exc = ""

FilterCall ==
    /\ prog = "remove_redundant_points_trajectory"
    /\ pc = "call"
    /\ fres' = RemoveRedundant(X, tol)
    /\ pc' = "done"
    /\ UNCHANGED <<prog, Y, T, i, tol, samplerVars, gip, integrateVars, fate_args, exc>>
    /\ UNCHANGED lapVars
    /\ UNCHANGED ec

NextFilter == FilterCall

SpecFilter == InitFilter /\ [][NextFilter]_vars

\* a call arclength_sampling(X, step_length, t)
InitSampler ==
    /\ prog = "arclength_sampling"
    /\ pc = "call"
    /\ X \in Paths
    /\ step_length \in Steps
    /\ tgrid \in TimeGrids(Len(X))
    /\ tol = NoValue /\ fres = NoFilterResult /\ gip = NoInitPath
    /\ Y = NoValue /\ T = NoValue /\ x0 = NoValue /\ t0 = NoValue
    /\ i = 0 /\ terminate = FALSE /\ arclength = NoValue
    /\ IntegrateIdle
    /\ LapIdle
    /\ ec = NoCorr
    /\ exc = ""

SamplerCall ==
    /\ prog = "arclength_sampling"
    /\ pc = "call"
    /\ SamplerEntry(X, step_length, tgrid)
    /\ pc' = "while"
    /\ UNCHANGED <<prog, filterVars, gip, integrateVars, fate_args, exc>>
    /\ UNCHANGED lapVars
    /\ UNCHANGED ec

NextSampler == SamplerCall \/ OuterIter \/ SamplerReturn

SpecSampler == InitSampler /\ [][NextSampler]_vars

----------------------------------------------------------------------------
(* get_init_path(G, start, end, coords, interpolation_num)                 *)

\* coords: the embedding coordinates of cells 0..4; cells 1 and 2 coincide
Coords == <<Pt(0, 0), Pt(3, 0), Pt(3, 0), Pt(3, 4), Pt(0, 4)>>
Cells == 0..(Len(Coords) - 1)

\* the start and end states and the interpolation numbers of the calls
StartEnds == {Pt(0, 0), Pt(3, 0), Pt(1, 4)}
InterpolationNums == {2, 3, 5}

\* G: a path graph, given as the order of the cells along it, so that every
\* node sequence without repetition is the shortest path of some G
Graphs == {g \in [1..Len(Coords) -> Cells] : \A a, b \in 1..Len(Coords) : a # b => g[a] # g[b]}

SqDist(u, v) == RSum([k \in 1..Len(u) |-> RMul(RSub(u[k], v[k]), RSub(u[k], v[k]))])

\* nearest_neighbors(p, coords, k=1)[0][0]: a cell nearest to p
Nearest(p) ==
    {c \in Cells : \A e \in Cells : RLe(SqDist(p, At(Coords, c)), SqDist(p, At(Coords, e)))}

Reverse(q) == [k \in 1..Len(q) |-> q[Len(q) + 1 - k]]
PosIn(g, c) == CHOOSE k \in 1..Len(g) : g[k] = c

\* nx.shortest_path(G, source, target) in the path graph g
ShortestPath(g, source, target) ==
    IF PosIn(g, source) <= PosIn(g, target)
    THEN SubSeq(g, PosIn(g, source), PosIn(g, target))
    ELSE Reverse(SubSeq(g, PosIn(g, target), PosIn(g, source)))

Arange(n) == [k \in 1..n |-> RInt(k - 1)]

\* the tol = 1e-4 of the call at line 89
InitPathTol == Rat(1, 10000)

InitInitPath ==
    /\ prog = "get_init_path"
    /\ pc = "call"
    /\ \E g \in Graphs, st \in StartEnds, en \in StartEnds, n \in InterpolationNums :
          gip = [NoInitPath EXCEPT !.G = g, !.start = st, !.end = en,
                                   !.interpolation_num = n]
    /\ tol = NoValue /\ fres = NoFilterResult
    /\ X = NoValue /\ Y = NoValue
    /\ SamplerIdle
    /\ IntegrateIdle
    /\ LapIdle
    /\ ec = NoCorr
    /\ exc = ""

\* lines 83-91, up to the entry of arclength_sampling
GIPCall ==
    /\ prog = "get_init_path"
    /\ pc = "call"
    /\ \E source_ind \in Nearest(gip.start), target_ind \in Nearest(gip.end) :
          LET path == ShortestPath(gip.G, source_ind, target_ind)
              init_path == [k \in 1..Len(path) |-> At(Coords, path[k])]
              arclen == RemoveRedundant(init_path, InitPathTol).arclength
              arc_stepsize == RDiv(arclen, RInt(gip.interpolation_num - 1))
          IN  /\ gip' = [gip EXCEPT !.path = path, !.arclen = arclen]
              /\ SamplerEntry(init_path, arc_stepsize, Arange(Len(init_path)))
    /\ pc' = "while"
    /\ UNCHANGED <<prog, filterVars, integrateVars, fate_args, exc>>
    /\ UNCHANGED lapVars
    /\ UNCHANGED ec

\* lines 94-96: np.vstack((start, init_path_final, end)), which fails on the
\* empty array np.array([]) of shape (0,)
GIPFinish ==
    /\ prog = "get_init_path"
    /\ pc = "sampled"
    /\ IF Y = <<>>
       THEN /\ pc' = "raised"
            /\ exc' = "ValueError"
            /\ UNCHANGED gip
       ELSE /\ pc' = "done"
            /\ gip' = [gip EXCEPT !.result = <<gip.start>> \o Y \o <<gip.end>>]
            /\ UNCHANGED exc
    /\ UNCHANGED <<prog, Y, T, i, filterVars, samplerVars, integrateVars, fate_args>>
    /\ UNCHANGED lapVars
    /\ UNCHANGED ec

NextInitPath == GIPCall \/ OuterIter \/ SamplerReturn \/ GIPFinish

SpecInitPath == InitInitPath /\ [][NextInitPath]_vars

----------------------------------------------------------------------------
(* integrate_vf(init_states, t, args, integration_direction, f,            *)
(*              interpolation_num, average)                                *)

MaxCells == 2        \* largest batch of initial states
MaxSteps == 4        \* longest time grid t

NFeature == 2
InitialStates == {Pt(0, 0), Pt(3, 0), Pt(0, 4)}
Batches == SeqsUpTo(InitialStates, MaxCells)
\* the vector fields: f(x) = c for a constant velocity c (c = 0: every state
\* is a fixed point)
Fields == {Pt(0, 0), Pt(1, 0), Pt(1, -2)}
IntegrationGrids == {Arange(n) : n \in 3..MaxSteps}
Directions == {"forward", "backward", "both", "sideways"}
InterpolationArgs == {NoNum, 2, 3}

\* the 1e-3 of line 1141
FlatThreshold == Rat(1, 1000)

Neg(tt) == [k \in 1..Len(tt) |-> RSub(RZero, tt[k])]

\* scipy.integrate.odeint(lambda x, t: f(x), y0, tt): the solution through y0
\* at tt[0], sampled at the times tt; exact for the constant field c
Odeint(c, y0, tt) == [k \in 1..Len(tt) |-> VAdd(y0, VScale(RSub(tt[k], tt[1]), c))]

\* np.hstack of two 2-d arrays with the same number of rows
HStack2(A, B) == [k \in 1..Len(A) |-> A[k] \o B[k]]

RECURSIVE SetToSeq(_)
SetToSeq(S) ==
    IF S = {} THEN <<>>
    ELSE LET lo == CHOOSE a \in S : \A b \in S : a <= b
         IN  <<lo>> \o SetToSeq(S \ {lo})

SeqToSet(q) == {q[k] : k \in 1..Len(q)}

\* np.where((np.diff(y.T) < 1e-3).sum(0) < y.shape[1])[0]
Vids(y) ==
    SetToSeq({k \in 0..(Len(y) - 2) :
        Cardinality({col \in 1..Len(y[1]) :
            RLt(RSub(At(y, k + 1)[col], At(y, k)[col]), FlatThreshold)}) < Len(y[1])})

\* np.linspace(a, b, num)
Linspace(a, b, num) ==
    [k \in 1..num |-> IF num = 1 THEN a
                      ELSE RAdd(a, RMul(RInt(k - 1), RDiv(RSub(b, a), RInt(num - 1))))]

Between(a, q, b) == (RLe(a, q) /\ RLe(q, b)) \/ (RLe(b, q) /\ RLe(q, a))

\* interpolate.interp1d(xs, rows.T)(q): linear interpolation of the rows given
\* at the strictly monotone abscissae xs
Interp1d(xs, rows, q) ==
    LET k == CHOOSE m \in 1..(Len(xs) - 1) : Between(xs[m], q, xs[m + 1])
    IN  VAdd(rows[k], VScale(RDiv(RSub(q, xs[k]), RSub(xs[k + 1], xs[k])),
                             VSub(rows[k + 1], rows[k])))

\* np.mean(rows, 0)
MeanRows(rows) ==
    [col \in 1..Len(rows[1]) |->
        RDiv(RSum([k \in 1..Len(rows) |-> rows[k][col]]), RInt(Len(rows)))]

ZeroRow == [col \in 1..NFeature |-> RZero]

NCell == Len(call.init_states)

\* lines 1102-1118
IVCall ==
    /\ prog \in {"integrate_vf", "fate"}
    /\ pc = "call"
    /\ IF call.ndim = 1
       THEN \* init_states.shape[1] of a 1-d array
            /\ pc' = "raised"
            /\ exc' = "IndexError"
            /\ UNCHANGED <<Y, i, integrateVars>>
       ELSE /\ pc' = "cells"
            /\ Y' = NoValue
            /\ valid_ids' = NoIds
            /\ i' = 0
            /\ UNCHANGED <<call, interpolation_num, t_trans, t, ret, exc>>
    /\ UNCHANGED <<prog, T, filterVars, samplerVars, gip, fate_args>>
    /\ UNCHANGED lapVars
    /\ UNCHANGED ec

\* line 1122: y = odeint(lambda x, t: f(x), y0, t, args=args)
ForwardRun(c, y0, tt) == Odeint(c, y0, tt)

\* a backward run over the grid t itself
BackwardRunOverT(c, y0, tt) == Odeint(c, y0, tt)

\* line 1125: y = odeint(lambda x, t: f(x), y0, -t, args=args), the same
\* field over the negated grid
BackwardRun(c, y0, tt) == Odeint(c, y0, Neg(tt))

\* the trajectory y of one cell, lines 1121-1131
CellY(y0) ==
    CASE call.integration_direction = "forward" -> ForwardRun(call.f, y0, t)
      [] call.integration_direction = "backward" -> BackwardRun(call.f, y0, t)
      [] call.integration_direction = "both" ->
            HStack2(Reverse(Odeint(call.f, y0, Neg(t))), Odeint(call.f, y0, t))

CellTTrans ==
    CASE call.integration_direction = "forward" -> t
      [] call.integration_direction = "backward" -> Neg(t)
      [] call.integration_direction = "both" -> Reverse(Neg(t)) \o t

\* one iteration of "for i in tqdm(range(n_cell))", lines 1119-1144
IVCell ==
    /\ prog = "integrate_vf"
    /\ pc = "cells"
    /\ i < NCell
    /\ IF call.integration_direction \notin {"forward", "backward", "both"}
       THEN /\ pc' = "raised"
            /\ exc' = "Exception"
            /\ UNCHANGED <<Y, i, integrateVars>>
       ELSE LET y == CellY(At(call.init_states, i))
                num == IF call.integration_direction = "both" /\ interpolation_num # NoNum
                       THEN interpolation_num * 2 ELSE interpolation_num
            IN  /\ t_trans' = CellTTrans
                /\ interpolation_num' = num
                /\ valid_ids' = IF num = NoNum THEN valid_ids
                                ELSE IF valid_ids = NoIds THEN Vids(y)
                                ELSE SetToSeq(SeqToSet(valid_ids) \cup SeqToSet(Vids(y)))
                /\ Y' = IF i = 0 THEN y ELSE Y \o y
                /\ i' = i + 1
                /\ UNCHANGED <<pc, call, t, ret, exc>>
    /\ UNCHANGED <<prog, T, filterVars, samplerVars, gip, fate_args>>
    /\ UNCHANGED lapVars
    /\ UNCHANGED ec

\* Y[c : (c + 1) * len(t_trans), :]
CellSlice(c) == SubSeq(Y, c + 1, IF (c + 1) * Len(t_trans) < Len(Y)
                                  THEN (c + 1) * Len(t_trans) ELSE Len(Y))

\* lines 1146-1159: the interpolation of every trajectory
IVInterpolate ==
    /\ prog = "integrate_vf"
    /\ pc = "cells"
    /\ i = NCell
    /\ interpolation_num # NoNum
    /\ IF NCell = 0
       THEN \* t_trans was never assigned
            /\ pc' = "raised"
            /\ exc' = "UnboundLocalError"
            /\ UNCHANGED <<Y, t>>
       ELSE LET valid_t_trans == [k \in 1..Len(valid_ids) |-> At(t_trans, valid_ids[k])]
                t_linspace == Linspace(valid_t_trans[1], valid_t_trans[Len(valid_t_trans)],
                                       interpolation_num)
                cur_Y(c) == [k \in 1..Len(valid_ids) |-> At(CellSlice(c), valid_ids[k])]
                block(c) == [k \in 1..Len(t_linspace) |->
                                Interp1d(valid_t_trans, cur_Y(c), t_linspace[k])]
                RECURSIVE Blocks(_)
                Blocks(c) == IF c = NCell THEN <<>> ELSE block(c) \o Blocks(c + 1)
                RECURSIVE Grids(_)
                Grids(c) == IF c = NCell THEN <<>> ELSE t_linspace \o Grids(c + 1)
            IN  IF \/ valid_ids = <<>>
                   \/ \E c \in 0..(NCell - 1), k \in 1..Len(valid_ids) :
                         valid_ids[k] >= Len(CellSlice(c))
                THEN \* valid_t_trans[0], or a row index beyond the slice
                     /\ pc' = "raised"
                     /\ exc' = "IndexError"
                     /\ UNCHANGED <<Y, t>>
                ELSE IF Len(valid_ids) < 2
                THEN \* interp1d given a single point (a grid of two times);
                     \* no call of InitIntegrate comes here
                     /\ pc' = "raised"
                     /\ exc' = "ValueError"
                     /\ UNCHANGED <<Y, t>>
                ELSE /\ pc' = "average"
                     /\ t' = Grids(0)
                     /\ Y' = Blocks(0)
                     /\ UNCHANGED exc
    /\ UNCHANGED <<prog, T, i, call, interpolation_num, valid_ids, t_trans, ret,
                   filterVars, samplerVars, gip, fate_args>>
    /\ UNCHANGED lapVars
    /\ UNCHANGED ec

\* the rows of avg allocated at lines 1108-1114
AvgRows ==
    LET n_steps == IF call.interpolation_num = NoNum THEN Len(call.t)
                   ELSE call.interpolation_num
    IN  IF call.integration_direction = "both" THEN n_steps * 2 ELSE n_steps

\* the loop of lines 1162-1164 run to its end on avg = zeros
Averaged(t_len) ==
    [r \in 1..AvgRows |->
        IF r <= t_len
        THEN MeanRows([c \in 1..NCell |-> At(Y, (c - 1) * t_len + (r - 1))])
        ELSE ZeroRow]

\* lines 1161-1167: the averaging and the return
IVReturn ==
    /\ prog = "integrate_vf"
    /\ \/ pc = "average"
       \/ pc = "cells" /\ i = NCell /\ interpolation_num = NoNum
    /\ IF NCell > 1 /\ call.average
       THEN LET t_len == Len(t) \div NCell
            IN  IF t_len >= 1 /\ Len(Y[1]) # NFeature
                THEN \* a row of 2 * n_feature entries assigned to avg[i, :]
                     /\ pc' = "raised"
                     /\ exc' = "ValueError"
                     /\ UNCHANGED ret
                ELSE IF t_len > AvgRows
                THEN \* avg[i, :] beyond the rows of avg
                     /\ pc' = "raised"
                     /\ exc' = "IndexError"
                     /\ UNCHANGED ret
                ELSE /\ pc' = "done"
                     /\ ret' = [t |-> t, Y |-> Averaged(t_len)]
                     /\ UNCHANGED exc
       ELSE /\ pc' = "done"
            /\ ret' = [t |-> t, Y |-> Y]
            /\ UNCHANGED exc
    /\ UNCHANGED <<prog, Y, T, i, call, interpolation_num, valid_ids, t_trans, t,
                   filterVars, samplerVars, gip, fate_args>>
    /\ UNCHANGED lapVars
    /\ UNCHANGED ec

----------------------------------------------------------------------------
(* integrate_vf_ivp(init_states, t, args, integration_direction, f,        *)
(*                  interpolation_num, average)                            *)

IvpSteps == 2        \* steps solve_ivp takes over the whole time span

\* the time points of solve_ivp(ivp_f, [from, to], y0, events=ivp_f_event,
\* max_step=max_step): equal steps from "from" to "to".  At a fixed point
\* (f = 0) the terminal event is active in the first step and ends the
\* integration there; the solver locates it at the start of that step
\* (at_start) or at its end.
SolveIvpT(from, to, at_start) ==
    LET h == RDiv(RSub(to, from), RInt(IvpSteps))
    IN  IF call.f = ZeroRow
        THEN <<from, IF at_start THEN from ELSE RAdd(from, h)>>
        ELSE [k \in 1..(IvpSteps + 1) |-> RAdd(from, RMul(RInt(k - 1), h))]

\* y_ivp.sol(tau), the dense output of the solution through y0 at "from"
IvpSol(y0, from, tau) == VAdd(y0, VScale(RSub(tau, from), call.f))

\* one iteration of the loop of lines 1180-1247
IvpCell ==
    /\ prog = "integrate_vf_ivp"
    /\ pc = "cells"
    /\ i < NCell
    /\ IF call.integration_direction \notin {"forward", "backward", "both"}
       THEN /\ pc' = "raised"
            /\ exc' = "Exception"
            /\ UNCHANGED <<T, i, interpolation_num>>
       ELSE LET fwd(e) == SolveIvpT(t[1], t[Len(t)], e)
                bwd(e) == SolveIvpT(RSub(RZero, t[1]), RSub(RZero, t[Len(t)]), e)
                cell_t(eb, ef) ==
                    CASE call.integration_direction = "forward" -> fwd(ef)
                      [] call.integration_direction = "backward" -> bwd(eb)
                      [] call.integration_direction = "both" -> Reverse(bwd(eb)) \o fwd(ef)
            IN  /\ \E eb, ef \in BOOLEAN : T' = T \o cell_t(eb, ef)
                /\ interpolation_num' =
                      IF call.integration_direction = "both" /\ interpolation_num # NoNum
                      THEN interpolation_num * 2 ELSE interpolation_num
                /\ i' = i + 1
                /\ UNCHANGED <<pc, exc>>
    /\ UNCHANGED <<prog, Y, call, valid_ids, t_trans, t, ret, filterVars, samplerVars,
                   gip, fate_args>>
    /\ UNCHANGED lapVars
    /\ UNCHANGED ec

\* np.unique(T)
RECURSIVE RSort(_)
RSort(S) ==
    IF S = {} THEN <<>>
    ELSE LET lo == CHOOSE a \in S : \A b \in S : RLe(a, b)
         IN  <<lo>> \o RSort(S \ {lo})

\* cur_Y of cell c (lines 1255-1264), one row per time of valid_t_trans
IvpCurY(c, valid_t_trans) ==
    LET y0 == At(call.init_states, c)
    IN  [k \in 1..Len(valid_t_trans) |->
            IF call.integration_direction = "forward"
            THEN IvpSol(y0, t[1], valid_t_trans[k])
            ELSE IF call.integration_direction = "backward"
            THEN IvpSol(y0, RSub(RZero, t[1]), valid_t_trans[k])
            ELSE IF RLt(valid_t_trans[k], RZero)
            THEN IvpSol(y0, RSub(RZero, t[1]), valid_t_trans[k])
            ELSE IvpSol(y0, t[1], valid_t_trans[k])]

RECURSIVE IvpStack(_, _)
IvpStack(c, valid_t_trans) ==
    IF c = NCell THEN <<>>
    ELSE IvpCurY(c, valid_t_trans) \o IvpStack(c + 1, valid_t_trans)

\* lines 1249-1277; Y keeps the transpose of _Y, the cells' rows stacked
IvpReturn ==
    /\ prog = "integrate_vf_ivp"
    /\ pc = "cells"
    /\ i = NCell
    /\ IF NCell = 0
       THEN \* Y is None at "return t, Y.T"
            /\ pc' = "raised"
            /\ exc' = "AttributeError"
            /\ UNCHANGED <<Y, ret>>
       ELSE LET valid_t_trans == RSort(SeqToSet(T))
                stacked == IvpStack(0, valid_t_trans)
                t_len == Len(valid_t_trans) \div NCell
            IN  /\ Y' = stacked
                /\ ret' = [t |-> valid_t_trans,
                           Y |-> IF NCell > 1 /\ call.average
                                 THEN [r \in 1..t_len |->
                                         MeanRows([c \in 1..NCell |->
                                            At(stacked, (c - 1) * t_len + (r - 1))])]
                                 ELSE stacked]
                /\ pc' = "done"
                /\ UNCHANGED exc
    /\ UNCHANGED <<prog, T, i, call, interpolation_num, valid_ids, t_trans, t,
                   filterVars, samplerVars, gip, fate_args>>
    /\ UNCHANGED lapVars
    /\ UNCHANGED ec

\* lines 1175-1178
IvpCall ==
    /\ prog = "integrate_vf_ivp"
    /\ pc = "call"
    /\ pc' = "cells"
    /\ T' = <<>>
    /\ Y' = <<>>
    /\ i' = 0
    /\ UNCHANGED <<prog, integrateVars, filterVars, samplerVars, gip, fate_args, exc>>
    /\ UNCHANGED lapVars
    /\ UNCHANGED ec

----------------------------------------------------------------------------
(* fate(VecFld, init_states, VecFld_true, t_end, step_size, direction,     *)
(*      average)                                                           *)

TEnds == {1, 10, 10000000}
StepSizes == {NoValue, RInt(1), Rat(1, 2)}

RECURSIVE Pow10(_)
Pow10(n) == IF n = 0 THEN 1 ELSE 10 * Pow10(n - 1)

\* int(np.log10(n)) for an integer n >= 1
RECURSIVE IntLog10(_)
IntLog10(n) == IF n < 10 THEN 0 ELSE 1 + IntLog10(n \div 10)

Max(a, b) == IF a >= b THEN a ELSE b

\* the number of entries of a half-open np.arange(0, stop, step)
ArangeLen(stop, step) ==
    LET q == RDiv(stop, step)
    IN  IF q[1] % q[2] = 0 THEN q[1] \div q[2] ELSE q[1] \div q[2] + 1

\* len(t_linspace), lines 109-114
FateNSteps(t_end, step_size) ==
    IF step_size = NoValue
    THEN Pow10(Max(IntLog10(t_end), 6))
    ELSE ArangeLen(RAdd(RInt(t_end), step_size), step_size)

\* lines 107-143, up to the first call of integrate_vf.  That call is made
\* with the 1-d array init_states[i, :]; t_linspace, of n_steps entries, is
\* not built here: integrate_vf fails on init_states.shape[1] before it
\* reads t.
FateCall ==
    /\ prog = "fate"
    /\ pc = "fate_call"
    /\ fate_args' = [fate_args EXCEPT
                        !.n_steps = FateNSteps(fate_args.t_end, fate_args.step_size)]
    /\ IF fate_args.direction \notin {"both", "forward", "backward"}
       THEN /\ pc' = "raised"
            /\ exc' = "Exception"
            /\ UNCHANGED call
       ELSE IF Len(fate_args.init_states) = 0
       THEN \* "return t, prediction, avg" with t never assigned
            /\ pc' = "raised"
            /\ exc' = "UnboundLocalError"
            /\ UNCHANGED call
       ELSE /\ pc' = "call"
            /\ call' = [NoCall EXCEPT !.init_states = fate_args.init_states[1],
                                      !.ndim = 1,
                                      !.integration_direction = fate_args.direction]
            /\ UNCHANGED exc
    /\ UNCHANGED <<prog, Y, T, i, interpolation_num, valid_ids, t_trans, t, ret,
                   filterVars, samplerVars, gip>>
    /\ UNCHANGED lapVars
    /\ UNCHANGED ec

----------------------------------------------------------------------------
(* The calls of the integrators.                                           *)

InitIntegrate ==
    /\ \/ /\ prog \in {"integrate_vf", "integrate_vf_ivp"}
          /\ pc = "call"
          /\ \E b \in Batches, g \in IntegrationGrids, d \in Directions, c \in Fields,
                n \in InterpolationArgs, a \in BOOLEAN :
                /\ call = [init_states |-> b, ndim |-> 2, t |-> g,
                           integration_direction |-> d, f |-> c,
                           interpolation_num |-> n, average |-> a]
                /\ t = g
                /\ interpolation_num = n
          /\ fate_args = NoFateArgs
       \/ /\ prog = "fate"
          /\ pc = "fate_call"
          /\ \E b \in Batches, te \in TEnds, ss \in StepSizes, d \in Directions,
                a \in BOOLEAN :
                fate_args = [init_states |-> b, t_end |-> te, step_size |-> ss,
                             direction |-> d, average |-> a, n_steps |-> 0]
          /\ call = NoCall /\ t = NoValue /\ interpolation_num = NoNum
    /\ valid_ids = NoIds /\ t_trans = NoValue /\ ret = NoReturn
    /\ tol = NoValue /\ fres = NoFilterResult /\ gip = NoInitPath
    /\ X = NoValue /\ Y = NoValue
    /\ SamplerIdle
    /\ LapIdle
    /\ ec = NoCorr
    /\ exc = ""

NextIntegrate ==
    \/ IVCall \/ IVCell \/ IVInterpolate \/ IVReturn
    \/ IvpCall \/ IvpCell \/ IvpReturn
    \/ FateCall

SpecIntegrate == InitIntegrate /\ [][NextIntegrate]_vars

----------------------------------------------------------------------------
(* action(path, vf_func, D, dt), least_action_path(start, end, vf_func,    *)
(* jac_func, n_points, init_path, D, dt_0) and LeastActionPath(X, vf_func, *)
(* D, dt) of dynamo/prediction/least_action_path.py                        *)

MaxPath == 3         \* longest path handed to action and LeastActionPath
MaxNPoints == 3      \* largest n_points of a call with the default seed

LapPaths == SeqsUpTo(Points, MaxPath) \ {<<>>}
\* the vector fields f(x) = k * x + c: the zero field, a constant field and
\* two fields with a stable fixed point
VecFields == {[k |-> RInt(kk), c |-> cc] : kk \in {0, -1}, cc \in {Pt(0, 0), Pt(1, 0)}}
Ds == {RInt(1), RInt(2)}
Dts == {RInt(1), Rat(1, 2), RInt(2), RInt(-1)}
Dt0s == {RInt(1), Rat(1, 2)}
LapEnds == {Pt(0, 0), Pt(3, 4)}
NPoints == 1..MaxNPoints
SeedPaths == {q \in LapPaths : Len(q) >= 2}

\* vf_func(x) for an array x of points
VfFunc(f, x) == [s \in 1..Len(x) |-> VAdd(VScale(f.k, x[s]), f.c)]

\* jac_func(x): JacFunc(f, x)[s] is J[:, :, s], the Jacobian k * I of f at x[s]
JacFunc(f, x) ==
    [s \in 1..Len(x) |->
        [a \in 1..Len(x[s]) |-> [b \in 1..Len(x[s]) |-> IF a = b THEN f.k ELSE RZero]]]

\* ndarray.flatten of a 2-d array
RECURSIVE Flatten(_)
Flatten(rows) == IF rows = <<>> THEN <<>> ELSE Head(rows) \o Flatten(Tail(rows))

\* s.dot(s)
Dot(u, v) == RSum([k \in 1..Len(u) |-> RMul(u[k], v[k])])

\* path[:-1], the left end of every segment
LeftPoints(path) == SubSeq(path, 1, Len(path) - 1)

\* line 15: x = (path[:-1] + path[1:]) * 0.5
Midpoints(path) ==
    [s \in 1..(Len(path) - 1) |-> VScale(Rat(1, 2), VAdd(path[s], path[s + 1]))]

\* line 16: v = np.diff(path, axis=0) / dt
Velocities(path, dt) ==
    [s \in 1..(Len(path) - 1) |->
        [k \in 1..Len(path[s]) |-> RDiv(RSub(path[s + 1][k], path[s][k]), dt)]]

\* lines 18-22 with s.sum() in place of s.dot(s)
ActionOfSum(path, vf_func, D, dt) ==
    LET x == Midpoints(path)
        v == Velocities(path, dt)
        fx == VfFunc(vf_func, x)
        s == Flatten([n \in 1..Len(v) |-> VSub(v[n], fx[n])])
    IN  RDiv(RMul(RMul(Rat(1, 2), RSum(s)), dt), D)

\* lines 14-22: action(path, vf_func, D, dt)
Action(path, vf_func, D, dt) ==
    LET x == Midpoints(path)
        v == Velocities(path, dt)
        fx == VfFunc(vf_func, x)
        s == Flatten([n \in 1..Len(v) |-> VSub(v[n], fx[n])])
    IN  RDiv(RMul(RMul(Rat(1, 2), Dot(s, s)), dt), D)

\* lines 48-54: reshape_path(path_flatten, dim, start, end)
ReshapePath(path_flatten, dim, start, end) ==
    LET path == [r \in 1..(Len(path_flatten) \div dim) |->
                    SubSeq(path_flatten, (r - 1) * dim + 1, r * dim)]
        with_start == IF start # NoValue THEN <<start>> \o path ELSE path
    IN  IF end # NoValue THEN Append(with_start, end) ELSE with_start

\* lines 25-27: action_aux
ActionAux(path_flatten, vf_func, dim, start, end, D, dt) ==
    Action(ReshapePath(path_flatten, dim, start, end), vf_func, D, dt)

\* lines 30-40: action_grad(path, vf_func, jac_func, D, dt)
ActionGrad(path, vf_func, jac_func, D, dt) ==
    LET x == Midpoints(path)
        v == Velocities(path, dt)
        fx == VfFunc(vf_func, x)
        dv == [n \in 1..Len(v) |-> VSub(v[n], fx[n])]
        J == JacFunc(jac_func, x)
        z == [s \in 1..Len(dv) |->
                [b \in 1..Len(dv[s]) |->
                    RSum([a \in 1..Len(dv[s]) |-> RMul(dv[s][a], J[s][a][b])])]]
    IN  [n \in 1..(Len(dv) - 1) |->
            VSub(VScale(RDiv(RInt(1), D), VSub(dv[n], dv[n + 1])),
                 VScale(RDiv(dt, RMul(RInt(2), D)), VAdd(z[n], z[n + 1])))]

\* lines 43-45: action_grad_aux
ActionGradAux(path_flatten, vf_func, jac_func, dim, start, end, D, dt) ==
    Flatten(ActionGrad(ReshapePath(path_flatten, dim, start, end), vf_func, jac_func, D, dt))

\* line 62: the straight line from start to end in n_points segments
StraightLine(start, end, n_points) ==
    LET w == Linspace(RZero, RInt(1), n_points + 1)
    IN  [k \in 1..(n_points + 1) |-> VAdd(start, VScale(w[k], VSub(end, start)))]

\* lines 67-68: the closure fun(x).  Its body calls action_aux and has no
\* return statement: the call returns None.
Fun(x) ==
    LET value == ActionAux(x, lap.vf_func, lap.dim, lap.path_0[1],
                           lap.path_0[Len(lap.path_0)], lap.D, lap.dt_0)
    IN  NoValue

\* lines 70-72: the closure jac(x), for a jac_func that is not None.  Its body
\* calls action_grad_aux and has no return statement either.
Jac(x) ==
    LET grad == ActionGradAux(x, lap.vf_func, lap.jac_func, lap.dim, lap.path_0[1],
                              lap.path_0[Len(lap.path_0)], lap.D, lap.dt_0)
    IN  NoValue

\* what scipy.optimize.minimize raises when the objective returns None: a
\* TypeError where the value is compared or added, a ValueError in the
\* versions that first reject the two-dimensional x0 = path_0[1:-1]
MinimizeErrors == {"TypeError", "ValueError"}

\* lines 57-66: dim and the seed path_0
LAPCall ==
    /\ prog = "least_action_path"
    /\ pc = "call"
    /\ lap' = [lap EXCEPT !.dim = Len(lap.start),
                          !.path_0 = IF lap.init_path = NoValue
                                     THEN StraightLine(lap.start, lap.end, lap.n_points)
                                     ELSE lap.init_path]
    /\ pc' = "minimize"
    /\ UNCHANGED <<prog, Y, T, i, filterVars, samplerVars, gip, integrateVars,
                   fate_args, act, obj, exc>>
    /\ UNCHANGED ec

\* lines 74-79: minimize(fun, path_0[1:-1], jac=jac), the minimization over
\* dt and the return.  minimize evaluates fun at the interior path_0[1:-1]
\* first.
LAPMinimize ==
    /\ prog = "least_action_path"
    /\ pc = "minimize"
    /\ LET interior == Flatten(SubSeq(lap.path_0, 2, Len(lap.path_0) - 1))
           objective == Fun(interior)
       IN  IF objective = NoValue
           THEN /\ pc' = "raised"
                /\ \E e \in MinimizeErrors : exc' = e
                /\ lap' = [lap EXCEPT !.objective = objective, !.jac_passed = TRUE]
           ELSE \* a minimizer that is given numbers returns some x of the
                \* shape of the interior and some t
                \E x \in {interior}, t_sol \in Dts :
                    LET path_sol == ReshapePath(x, lap.dim, lap.path_0[1],
                                                lap.path_0[Len(lap.path_0)])
                    IN  /\ pc' = "done"
                        /\ lap' = [lap EXCEPT
                              !.objective = objective,
                              !.jac_passed = TRUE,
                              !.ret = [path_sol |-> path_sol, dt_sol |-> t_sol,
                                       action_opt |-> Action(path_sol, lap.vf_func,
                                                             lap.D, t_sol),
                                       sol_dict |-> x]]
                        /\ UNCHANGED exc
    /\ UNCHANGED <<prog, Y, T, i, filterVars, samplerVars, gip, integrateVars,
                   fate_args, act, obj>>
    /\ UNCHANGED ec

\* a call action(path, vf_func, D, dt)
ActionCall ==
    /\ prog = "action"
    /\ pc = "call"
    /\ act' = [act EXCEPT !.x = Midpoints(act.path),
                          !.value = Action(act.path, act.vf_func, act.D, act.dt)]
    /\ pc' = "done"
    /\ UNCHANGED <<prog, Y, T, i, filterVars, samplerVars, gip, integrateVars,
                   fate_args, lap, obj, exc>>
    /\ UNCHANGED ec

\* Trajectory.__init__(X, t): the base class keeps the path and its time grid
Trajectory(Xp, tt) == [X |-> Xp, t |-> tt]

\* line 157 with the sub-path X[:i]
PrefixActionShort(o, k) == Action(SubSeq(o.X, 1, k), o.func, o.D, o.dt)

\* line 157 with the last segment X[i - 1 : i + 1] only
PrefixActionLastSegment(o, k) == Action(SubSeq(o.X, k, k + 1), o.func, o.D, o.dt)

\* line 157: action(self.X[: i + 1], self.func, self.D, dt)
PrefixAction(o, k) == Action(SubSeq(o.X, 1, k + 1), o.func, o.D, o.dt)

\* lines 151-155 of LeastActionPath.__init__
LAPathInit ==
    /\ prog = "LeastActionPath"
    /\ pc = "call"
    /\ LET base == Trajectory(obj.X, [k \in 1..Len(obj.X) |-> RMul(RInt(k - 1), obj.dt)])
       IN  obj' = [obj EXCEPT !.X = base.X, !.t = base.t,
                              !._action = [k \in 1..Len(obj.X) |-> RZero],
                              !.i = 1]
    /\ pc' = IF 1 < Len(obj.X) THEN "for" ELSE "done"
    /\ UNCHANGED <<prog, Y, T, i, filterVars, samplerVars, gip, integrateVars,
                   fate_args, act, lap, exc>>
    /\ UNCHANGED ec

\* one iteration of "for i in range(1, len(self._action))", lines 156-157
LAPathIter ==
    /\ prog = "LeastActionPath"
    /\ pc = "for"
    /\ obj.i < Len(obj._action)
    /\ obj' = [obj EXCEPT !._action[obj.i + 1] = PrefixAction(obj, obj.i),
                          !.i = obj.i + 1,
                          !.n_eval = obj.n_eval + 1]
    /\ pc' = IF obj.i + 1 < Len(obj._action) THEN "for" ELSE "done"
    /\ UNCHANGED <<prog, Y, T, i, filterVars, samplerVars, gip, integrateVars,
                   fate_args, act, lap, exc>>
    /\ UNCHANGED ec

\* the arguments t of LeastActionPath.action for an object with the grid tt:
\* None, the grid times, the times half way between them, and a time on either
\* side of the grid
RMin(S) == CHOOSE a \in S : \A b \in S : RLe(a, b)
RMax(S) == CHOOSE a \in S : \A b \in S : RLe(b, a)
QueryTimes(tt) ==
    LET grid == {tt[k] : k \in 1..Len(tt)}
    IN  {NoValue} \cup grid
            \cup {RMul(Rat(1, 2), RAdd(tt[k], tt[k + 1])) : k \in 1..(Len(tt) - 1)}
            \cup {RSub(RMin(grid), RInt(1)), RAdd(RMax(grid), RInt(1))}

\* interp1d(xs, ys)(q) for a series ys of numbers
Interp1dSeries(xs, ys, q) == Interp1d(xs, [k \in 1..Len(ys) |-> <<ys[k]>>], q)[1]

\* lines 165-169: LeastActionPath.action(t, **interp_kwargs) with no keyword
\* arguments, on an object that has been built.  interp1d is built with its
\* defaults: bounds_error is True, a query outside [min(t), max(t)] raises
\* ValueError.  A grid of one time is refused (ValueError) by the scipy
\* versions that ask for two entries and accepted by the others.
LAPathAction ==
    /\ prog = "LeastActionPath"
    /\ pc \in {"done", "returned"}
    /\ \E q \in QueryTimes(obj.t) :
          LET grid == {obj.t[k] : k \in 1..Len(obj.t)}
          IN  IF q = NoValue
              THEN /\ obj' = [obj EXCEPT !.query = q, !.out = obj._action]
                   /\ pc' = "returned"
                   /\ UNCHANGED exc
              ELSE IF ~(RLe(RMin(grid), q) /\ RLe(q, RMax(grid)))
              THEN /\ obj' = [obj EXCEPT !.query = q, !.out = NoValue]
                   /\ pc' = "raised"
                   /\ exc' = "ValueError"
              ELSE IF Len(obj.t) = 1
              THEN \/ /\ obj' = [obj EXCEPT !.query = q, !.out = NoValue]
                      /\ pc' = "raised"
                      /\ exc' = "ValueError"
                   \/ /\ obj' = [obj EXCEPT !.query = q, !.out = obj._action[1]]
                      /\ pc' = "returned"
                      /\ UNCHANGED exc
              ELSE /\ obj' = [obj EXCEPT !.query = q,
                                         !.out = Interp1dSeries(obj.t, obj._action, q)]
                   /\ pc' = "returned"
                   /\ UNCHANGED exc
    /\ UNCHANGED <<prog, Y, T, i, filterVars, samplerVars, gip, integrateVars,
                   fate_args, act, lap>>
    /\ UNCHANGED ec

InitLap ==
    /\ \/ /\ prog = "action"
          /\ \E p \in LapPaths, f \in VecFields, d \in Ds, h \in Dts :
                act = [NoAct EXCEPT !.path = p, !.vf_func = f, !.D = d, !.dt = h]
          /\ lap = NoLap /\ obj = NoObj
       \/ /\ prog = "least_action_path"
          /\ \E st \in LapEnds, en \in LapEnds, f \in VecFields, d \in Ds, h \in Dt0s :
             \E jf \in {NoField, f} :
                \/ \E n \in NPoints :
                      lap = [NoLap EXCEPT !.start = st, !.end = en, !.vf_func = f,
                                          !.jac_func = jf, !.n_points = n,
                                          !.D = d, !.dt_0 = h]
                \/ \E q \in SeedPaths :
                      lap = [NoLap EXCEPT !.start = st, !.end = en, !.vf_func = f,
                                          !.jac_func = jf, !.n_points = Len(q) - 1,
                                          !.init_path = q, !.D = d, !.dt_0 = h]
          /\ act = NoAct /\ obj = NoObj
       \/ /\ prog = "LeastActionPath"
          /\ \E p \in LapPaths, f \in VecFields, d \in Ds, h \in Dts :
                obj = [NoObj EXCEPT !.X = p, !.func = f, !.D = d, !.dt = h]
          /\ act = NoAct /\ lap = NoLap
    /\ pc = "call"
    /\ tol = NoValue /\ fres = NoFilterResult /\ gip = NoInitPath
    /\ X = NoValue
    /\ SamplerIdle
    /\ IntegrateIdle
    /\ ec = NoCorr
    /\ exc = ""

NextLap ==
    \/ ActionCall \/ LAPCall \/ LAPMinimize
    \/ LAPathInit \/ LAPathIter \/ LAPathAction

SpecLap == InitLap /\ [][NextLap]_vars

----------------------------------------------------------------------------
(* einsum_correlation(X, Y_i, type) of dynamo/tools/utils.py               *)

MaxRows == 2         \* most rows of the matrix X

\* rows of four entries whose centred form has a rational norm (pearson) and
\* rows with a rational norm (cosine); each set holds a row of norm zero
PearsonRows == {<<RInt(1), RInt(1), RInt(1), RInt(1)>>, <<RInt(2), RInt(2), RInt(0), RInt(0)>>,
                <<RInt(0), RInt(2), RInt(0), RInt(2)>>, <<RInt(4), RInt(0), RInt(4), RInt(0)>>}
CosineRows == {<<RInt(0), RInt(0), RInt(0), RInt(0)>>, <<RInt(1), RInt(1), RInt(1), RInt(1)>>,
               <<RInt(3), RInt(4), RInt(0), RInt(0)>>, <<RInt(0), RInt(0), RInt(2), RInt(0)>>}
CorrTypes == {"pearson", "cosine"}
RowsOf(type) == IF type = "pearson" THEN PearsonRows ELSE CosineRows

\* the floats 0.0 / 0.0 and x / 0.0 for x > 0
NaN == <<0, 0>>
Inf == <<1, 0>>

\* the division of numpy floats
FDiv(a, b) ==
    IF b[1] = 0 THEN (IF a[1] = 0 THEN NaN ELSE Inf) ELSE RDiv(a, b)

\* lines 80-81: v - mean(v)
Centred(v) ==
    LET mean == RDiv(RSum(v), RInt(Len(v)))
    IN  [k \in 1..Len(v) |-> RSub(v[k], mean)]

\* lines 89-92: the value of corr when Y_norm is zero
CorrOfZeroNorm(Xc, Yc) == [k \in 1..Len(Xc) |-> RZero]

\* line 92: np.einsum('ij, j', X, Y_i) / (X_norm * Y_norm)[None, :], an array
\* of one row
CorrQuotient(Xc, Yc) ==
    <<[k \in 1..Len(Xc) |-> FDiv(Dot(Xc[k], Yc), RMul(Norm(Xc[k]), Norm(Yc)))]>>

\* lines 76-94
EinsumCorrelation ==
    /\ prog = "einsum_correlation"
    /\ pc = "call"
    /\ LET Xc == IF ec.type = "pearson" THEN [k \in 1..Len(ec.X) |-> Centred(ec.X[k])]
                 ELSE ec.X
           Yc == IF ec.type = "pearson" THEN Centred(ec.Y_i) ELSE ec.Y_i
           X_norm == [k \in 1..Len(Xc) |-> Norm(Xc[k])]
           Y_norm == Norm(Yc)
       IN  ec' = [ec EXCEPT !.X = Xc, !.Y_i = Yc, !.X_norm = X_norm, !.Y_norm = Y_norm,
                            !.corr = IF Y_norm = RZero THEN CorrOfZeroNorm(Xc, Yc)
                                     ELSE CorrQuotient(Xc, Yc)]
    /\ pc' = "done"
    /\ UNCHANGED <<prog, Y, T, i, filterVars, samplerVars, gip, integrateVars,
                   fate_args, lapVars, exc>>

InitCorr ==
    /\ prog = "einsum_correlation"
    /\ pc = "call"
    /\ \E ty \in CorrTypes :
          \E M \in SeqsUpTo(RowsOf(ty), MaxRows) \ {<<>>}, v \in RowsOf(ty) :
              ec = [NoCorr EXCEPT !.X = M, !.Y_i = v, !.type = ty]
    /\ tol = NoValue /\ fres = NoFilterResult /\ gip = NoInitPath
    /\ X = NoValue
    /\ SamplerIdle
    /\ IntegrateIdle
    /\ LapIdle
    /\ exc = ""

NextCorr == EinsumCorrelation

SpecCorr == InitCorr /\ [][NextCorr]_vars

----------------------------------------------------------------------------
(* Properties of remove_redundant_points_trajectory.                       *)

FilterDone == prog = "remove_redundant_points_trajectory" /\ pc = "done"

\* C1: in the filtered path returned by remove_redundant_points_trajectory
\* every pair of consecutive retained points is at distance >= tol.
C1_RetainedPairsApart ==
    FilterDone =>
        \A k \in 1..(Len(fres.X) - 1) :
            RLe(tol, Norm(VSub(fres.X[k + 1], fres.X[k])))

\* C2: the first point is never discarded: the output is non-empty and starts
\* with the input's first point, the mask has the input's length, its entry 0
\* is false and it has as many false entries as there are retained points.
C2_FirstPointRetained ==
    FilterDone =>
        /\ Len(fres.X) >= 1
        /\ fres.X[1] = X[1]
        /\ Len(fres.discard) = Len(X)
        /\ ~fres.discard[1]
        /\ Cardinality({k \in 1..Len(X) : ~fres.discard[k]}) = Len(fres.X)

\* a call that discarded the second point, the one next to the first
C2_Witness ==
    /\ FilterDone
    /\ Len(X) >= 3
    /\ fres.discard[2]
    /\ Len(fres.X) < Len(X)

----------------------------------------------------------------------------
(* Properties of arclength_sampling.                                       *)

SamplerRunning == prog = "arclength_sampling" /\ pc \in {"while", "done"}

\* the point of the polyline P at arclength s from P[1], for 0 <= s <= its length
RECURSIVE PointAt(_, _)
PointAt(P, s) ==
    IF Len(P) < 2 THEN (IF s = RZero THEN P[1] ELSE NoValue)
    ELSE LET seg == VSub(P[2], P[1])
             d == Norm(seg)
         IN  IF RLe(s, d) /\ d # RZero
             THEN VAdd(P[1], VScale(RDiv(s, d), seg))
             ELSE PointAt(Tail(P), RSub(s, d))

NonDecreasing(s) == \A k \in 1..(Len(s) - 1) : RLe(s[k], s[k + 1])

\* floor of a non-negative rational
Floor(a) == a[1] \div a[2]

\* C3: the while loop of arclength_sampling terminates: no iteration of the
\* outer loop leaves the loop running without having emitted a point.
C3_OuterLoopProgress ==
    [][(prog = "arclength_sampling" /\ pc = "while" /\ pc' = "while")
          => (Len(Y') > Len(Y) \/ terminate')]_vars

\* C4: the k-th emitted point is the point of the polyline at arclength
\* k * step_length from X[0]; with times, one time is emitted per point and
\* the emitted times are non-decreasing when the input times are.
C4_SamplesOnPolyline ==
    SamplerRunning =>
        /\ \A k \in 1..Len(Y) :
              /\ RLe(RMul(RInt(k), step_length), ArcLen(X, Len(X)))
              /\ Y[k] = PointAt(X, RMul(RInt(k), step_length))
        /\ tgrid # NoValue =>
              /\ Len(T) = Len(Y)
              /\ NonDecreasing(tgrid) => NonDecreasing(T)

\* a finished walk with times in which one segment yielded several samples
C4_Witness ==
    /\ prog = "arclength_sampling" /\ pc = "done"
    /\ tgrid # NoValue /\ NonDecreasing(tgrid)
    /\ Len(X) >= 3
    /\ Len(Y) >= 3
    /\ RLe(RMul(RInt(2), step_length), Norm(VSub(X[2], X[1])))

\* C5: when the walk has stopped the number of emitted points is
\* floor(total polyline length / step_length).
C5_EmitsFloorOfLength ==
    (prog = "arclength_sampling" /\ pc = "done") =>
        Len(Y) = Floor(RDiv(ArcLen(X, Len(X)), step_length))

----------------------------------------------------------------------------
(* Properties of get_init_path.                                            *)

\* C6: get_init_path, for start and end cells joined by a path of positive
\* length, returns a path of exactly interpolation_num + 1 points.
C6_InitPathLength ==
    (prog = "get_init_path" /\ pc \in {"done", "raised"} /\ RLt(RZero, gip.arclen)) =>
        (pc = "done" /\ Len(gip.result) = gip.interpolation_num + 1)

----------------------------------------------------------------------------
(* Properties of integrate_vf, integrate_vf_ivp and fate.                  *)

Integrators == {"integrate_vf", "integrate_vf_ivp"}
Ended == pc \in {"done", "raised"}
DirectionArg == IF prog = "fate" THEN fate_args.direction ELSE call.integration_direction
Averaging == NCell > 1 /\ call.average

\* C7: a call of integrate_vf, integrate_vf_ivp or fate with a direction other
\* than forward, backward or both ends with an exception and returns nothing,
\* whatever the batch of initial states.
C7_InvalidDirectionRaises ==
    (prog \in Integrators \cup {"fate"} /\ Ended
        /\ DirectionArg \notin {"forward", "backward", "both"}) =>
        (pc = "raised" /\ ret = NoReturn)

\* C8: with direction both (no interpolation, no averaging) integrate_vf
\* returns per initial state 2 * len(t) rows of n_feature columns: the backward
\* run in reversed order, then the forward run.
C8_BothConcatenatesRuns ==
    (prog = "integrate_vf" /\ pc = "done" /\ call.integration_direction = "both"
        /\ call.interpolation_num = NoNum /\ NCell >= 1 /\ ~Averaging) =>
        /\ Len(ret.Y) = NCell * 2 * Len(call.t)
        /\ \A c \in 0..(NCell - 1) :
              LET y0 == At(call.init_states, c)
                  run == Reverse(Odeint(call.f, y0, Neg(call.t))) \o Odeint(call.f, y0, call.t)
              IN  \A k \in 1..(2 * Len(call.t)) :
                      ret.Y[c * 2 * Len(call.t) + k] = run[k]

\* C9: the time grid integrate_vf returns corresponds to the returned states:
\* the states have n_cell * n_steps rows of n_feature columns (n_steps rows when
\* averaged), the grid has one entry per state row of a trajectory, and
\* without interpolation entry k is the time at which row k was computed.
C9_TimeGridMatchesStates ==
    (prog = "integrate_vf" /\ pc = "done" /\ NCell >= 1) =>
        LET trajectories == IF Averaging THEN 1 ELSE NCell
            n_steps == AvgRows
        IN  /\ Len(ret.Y) = trajectories * n_steps
            /\ \A r \in 1..Len(ret.Y) : Len(ret.Y[r]) = NFeature
            /\ Len(ret.t) \in {n_steps, NCell * n_steps}
            /\ call.interpolation_num = NoNum =>
                  \A k \in 1..n_steps : ret.t[k] = t_trans[k]

\* C10: with averaging and more than one initial state, row j of the returned
\* states is the mean over the trajectories of the batch of their state at
\* time step j.
C10_AverageIsBatchMean ==
    (prog \in Integrators /\ pc = "done" /\ Averaging) =>
        LET n == Len(Y) \div NCell
        IN  /\ Len(ret.Y) = n
            /\ \A j \in 0..(n - 1) :
                  At(ret.Y, j) = MeanRows([c \in 1..NCell |-> At(Y, (c - 1) * n + j)])

\* the integrated states of trajectory c alone: odeint from its own initial
\* state over the grid of the call's direction
OwnStates(c) ==
    IF call.integration_direction = "forward"
    THEN ForwardRun(call.f, At(call.init_states, c), call.t)
    ELSE BackwardRun(call.f, At(call.init_states, c), call.t)

\* C11: with an interpolation count (direction forward or backward), the
\* interpolated block of trajectory c is the interpolation of trajectory c's
\* own integrated states at the valid indices onto the shared valid grid, so
\* that no other cell's initial state enters it.
C11_BlockFromOwnTrajectory ==
    (prog = "integrate_vf" /\ pc = "average"
        /\ call.integration_direction \in {"forward", "backward"}) =>
        LET valid_t_trans == [k \in 1..Len(valid_ids) |-> At(t_trans, valid_ids[k])]
            t_linspace == Linspace(valid_t_trans[1], valid_t_trans[Len(valid_t_trans)],
                                   interpolation_num)
            own(c) == [k \in 1..Len(valid_ids) |-> At(OwnStates(c), valid_ids[k])]
        IN  \A c \in 0..(NCell - 1), k \in 1..interpolation_num :
                At(Y, c * interpolation_num + (k - 1)) =
                    Interp1d(valid_t_trans, own(c), t_linspace[k])

\* the rows of the first trajectory of the batch, as integrate_vf stacked them
FirstRun == SubSeq(Y, 1, Len(call.t))

\* C12: backward integration inverts forward integration.  In a forward call
\* from x0, the backward run from the endpoint over the same grid ends at x0;
\* in a backward call the state reached, integrated forward over the same
\* grid, comes back to the state the backward run started from.  With the
\* zero field (every state a fixed point) every state of both runs is x0.
C12_BackwardInvertsForward ==
    (prog = "integrate_vf" /\ pc = "cells" /\ i >= 1
        /\ call.integration_direction \in {"forward", "backward"}) =>
        LET y0 == At(call.init_states, 0)
            endpoint == FirstRun[Len(FirstRun)]
            opposite == IF call.integration_direction = "forward"
                        THEN BackwardRun(call.f, endpoint, call.t)
                        ELSE ForwardRun(call.f, endpoint, call.t)
        IN  /\ opposite[Len(opposite)] = y0
            /\ call.f = ZeroRow =>
                  \A k \in 1..Len(call.t) : FirstRun[k] = y0 /\ opposite[k] = y0

\* a backward run of a field that moves the state has been integrated
C12_Witness ==
    /\ prog = "integrate_vf" /\ pc = "cells" /\ i >= 1
    /\ call.integration_direction = "backward"
    /\ call.f # ZeroRow
    /\ FirstRun[Len(FirstRun)] # At(call.init_states, 0)

----------------------------------------------------------------------------
(* Properties of least_action_path.                                        *)

LapStarted == prog = "least_action_path" /\ pc # "call"
LapEnded == prog = "least_action_path" /\ Ended
Positive(a) == RLt(RZero, a)
Last(q) == q[Len(q)]
\* the vector path_0[1:-1] the minimizer starts from, as fun receives it
Interior == Flatten(SubSeq(lap.path_0, 2, Len(lap.path_0) - 1))

\* C13: the path least_action_path works on and returns starts at the start
\* argument and ends at the end argument, with the default seed and with a
\* caller-supplied init_path: the seed, whose end points line 75 puts around
\* the optimized interior, has them, and a call that ends has returned a path
\* of the length of the seed whose first and last points are start and end.
C13_EndpointsAreStartAndEnd ==
    LapStarted =>
        /\ lap.path_0[1] = lap.start
        /\ Last(lap.path_0) = lap.end
        /\ Ended =>
              /\ pc = "done"
              /\ Len(lap.ret.path_sol) = Len(lap.path_0)
              /\ lap.ret.path_sol[1] = lap.start
              /\ Last(lap.ret.path_sol) = lap.end

\* C14: for every valid input (a Jacobian, D > 0, dt_0 > 0) a call of
\* least_action_path ends by returning the tuple (path, dt, action value,
\* solver diagnostics) and not by raising.
C14_AlwaysReturnsTuple ==
    (LapEnded /\ lap.jac_func # NoField /\ Positive(lap.D) /\ Positive(lap.dt_0)) =>
        /\ pc = "done"
        /\ exc = ""
        /\ lap.ret # NoLapReturn

\* C15: the objective the minimizer evaluates at a vector of interior points is
\* the action of the path (seed first point, interior points, seed last point)
\* with the caller's D and dt_0, and the gradient callback returns the
\* flattened action gradient of that path.
C15_ObjectiveIsAction ==
    LapEnded =>
        /\ lap.objective = ActionAux(Interior, lap.vf_func, lap.dim, lap.path_0[1],
                                     Last(lap.path_0), lap.D, lap.dt_0)
        /\ lap.jac_func # NoField =>
              Jac(Interior) = ActionGradAux(Interior, lap.vf_func, lap.jac_func, lap.dim,
                                            lap.path_0[1], Last(lap.path_0),
                                            lap.D, lap.dt_0)

\* C16: a call with jac_func = None hands no gradient callback to the
\* minimizer and ends by returning a result.
C16_NoJacobianStillReturns ==
    (LapEnded /\ lap.jac_func = NoField) =>
        /\ ~lap.jac_passed
        /\ pc = "done"
        /\ lap.ret # NoLapReturn

\* C17: for D > 0 and dt_0 > 0 a call of least_action_path returns an action
\* value >= 0 and a transit time dt > 0.
C17_ActionNonNegativeDtPositive ==
    (LapEnded /\ Positive(lap.D) /\ Positive(lap.dt_0)) =>
        /\ pc = "done"
        /\ RLe(RZero, lap.ret.action_opt)
        /\ Positive(lap.ret.dt_sol)

----------------------------------------------------------------------------
(* Properties of action and of LeastActionPath.                            *)

ActionDone == prog = "action" /\ pc = "done"
SqNorm(v) == RSum([k \in 1..Len(v) |-> RMul(v[k], v[k])])
\* the midpoint of segment n of a path
Mid(path, n) == VScale(Rat(1, 2), VAdd(path[n], path[n + 1]))
\* || (x[n+1] - x[n]) / dt - f(midpoint of segment n) ||^2
Mismatch(path, f, dt, n) ==
    SqNorm(VSub(VScale(RDiv(RInt(1), dt), VSub(path[n + 1], path[n])),
                VfFunc(f, <<Mid(path, n)>>)[1]))

\* C18: action(path, vf_func, D, dt) is (dt / 2D) times the sum over the
\* segments of the squared norm of (x[n+1] - x[n]) / dt - f(midpoint), the
\* field is evaluated at the segment midpoints and nowhere else, and a path of
\* a single point has action 0.
C18_ActionFormula ==
    ActionDone =>
        LET N == Len(act.path) - 1
        IN  /\ act.value = RMul(RDiv(act.dt, RMul(RInt(2), act.D)),
                                RSum([n \in 1..N |->
                                        Mismatch(act.path, act.vf_func, act.dt, n)]))
            /\ act.x = [n \in 1..N |-> Mid(act.path, n)]
            /\ N = 0 => act.value = RZero

\* action has run on a path of several segments in a field that varies along it
C18_Witness ==
    /\ ActionDone
    /\ Len(act.path) >= 3
    /\ act.vf_func.k # RZero
    /\ act.value # RZero

\* C19: for D > 0 and dt > 0 the value action returns is >= 0.
C19_ActionNonNegative ==
    (ActionDone /\ Positive(act.D) /\ Positive(act.dt)) => RLe(RZero, act.value)

\* action has returned a value > 0 for D > 0 and dt > 0
C19_Witness ==
    /\ ActionDone
    /\ Positive(act.D) /\ Positive(act.dt)
    /\ Positive(act.value)

ObjectBuilt == prog = "LeastActionPath" /\ pc = "done"

\* C20: a LeastActionPath built from a path X and a step dt has the time grid
\* [0, dt, 2 dt, ...] of the length of X; entry 0 of its cumulative action is 0
\* and entry k is action on the sub-path X[0..k] with the D and dt of the
\* object.
C20_TimeGridAndCumulativeAction ==
    ObjectBuilt =>
        /\ Len(obj.t) = Len(obj.X)
        /\ \A k \in 1..Len(obj.X) : obj.t[k] = RMul(RInt(k - 1), obj.dt)
        /\ Len(obj._action) = Len(obj.X)
        /\ obj._action[1] = RZero
        /\ \A k \in 2..Len(obj.X) :
              obj._action[k] = Action(SubSeq(obj.X, 1, k), obj.func, obj.D, obj.dt)

\* an object has been built on a path of several segments with an action
\* series that is not flat
C20_Witness ==
    /\ ObjectBuilt
    /\ Len(obj.X) >= 3
    /\ obj._action[2] # obj._action[3]

ActionAsked == prog = "LeastActionPath" /\ pc \in {"returned", "raised"}

\* C21: LeastActionPath.action(t) on a built object returns the cached series
\* itself when t is omitted, with no further evaluation of the vector field
\* however many calls came before; for every query time t, inside the grid,
\* before 0 or after the last grid time, it returns a value, and at a grid
\* time t_k the value is the cached entry k.
C21_ActionQuery ==
    ActionAsked =>
        /\ obj.n_eval = Len(obj.X) - 1
        /\ pc = "returned"
        /\ obj.query = NoValue => obj.out = obj._action
        /\ obj.query # NoValue =>
              \A k \in 1..Len(obj.t) : obj.query = obj.t[k] => obj.out = obj._action[k]

----------------------------------------------------------------------------
(* Properties of fate.                                                     *)

FateStarted == prog = "fate" /\ pc # "fate_call"
ValidDirection == fate_args.direction \in {"forward", "backward", "both"}

\* C22: with step_size = None, fate integrates over a grid of 250 time steps,
\* whatever t_end is.
C22_DefaultGridHas250Steps ==
    (FateStarted /\ fate_args.step_size = NoValue) => fate_args.n_steps = 250

\* C23: a call of fate with a valid direction and at least one cell ends by
\* returning a prediction of len(t) * n_cells rows (len(t) rows when average is
\* set), len(t) being n_steps, or 2 * n_steps for direction both.
C23_PredictionRowsPerCell ==
    (prog = "fate" /\ Ended /\ ValidDirection /\ Len(fate_args.init_states) >= 1) =>
        LET len_t == IF fate_args.direction = "both" THEN 2 * fate_args.n_steps
                     ELSE fate_args.n_steps
        IN  /\ pc = "done"
            /\ Len(ret.t) = len_t
            /\ Len(ret.Y) = IF fate_args.average THEN len_t
                            ELSE len_t * Len(fate_args.init_states)

----------------------------------------------------------------------------
(* Properties of einsum_correlation.                                       *)

\* entry k of the returned array, which has one row when it is a quotient
CorrEntry(k) == IF ec.Y_norm = RZero THEN ec.corr[k] ELSE ec.corr[1][k]

\* C24: einsum_correlation returns 0 for every entry whose denominator is
\* zero: for every row when Y_i (centred in pearson mode) has zero norm, and
\* for row k when row k of X has zero norm.
C24_ZeroNormGivesZero ==
    (prog = "einsum_correlation" /\ pc = "done") =>
        \A k \in 1..Len(ec.X) :
            (ec.Y_norm = RZero \/ ec.X_norm[k] = RZero) => CorrEntry(k) = RZero

----------------------------------------------------------------------------
(* The polyline get_init_path hands to arclength_sampling.                 *)

\* coords[path, :], line 87
GraphPolyline == [k \in 1..Len(gip.path) |-> At(Coords, gip.path[k])]

\* C25: the polyline get_init_path hands to arclength_sampling is the output
\* of the redundant-point filter (tol 1e-4) on the shortest path, so that no
\* two consecutive points of it are closer than the tolerance, and the step
\* length is the arclength of that polyline over interpolation_num - 1.
C25_SamplerGetsFilteredPolyline ==
    (prog = "get_init_path" /\ pc # "call") =>
        /\ X = RemoveRedundant(GraphPolyline, InitPathTol).X
        /\ \A k \in 1..(Len(X) - 1) : ~RLt(Norm(VSub(X[k + 1], X[k])), InitPathTol)
        /\ step_length = RDiv(ArcLen(X, Len(X)), RInt(gip.interpolation_num - 1))

----------------------------------------------------------------------------
(* Properties of the interpolation of integrate_vf.                        *)

Interpolating == prog = "integrate_vf" /\ call.interpolation_num # NoNum
CellsIntegrated == pc = "cells" /\ i = NCell /\ NCell >= 1

\* C26: with direction both and an interpolation count k, the count used for
\* the interpolation is 2 * k whatever the size of the batch, and the
\* interpolated states hold 2 * k rows for every trajectory.
C26_BothDoublesCountOnce ==
    (Interpolating /\ call.integration_direction = "both") =>
        /\ CellsIntegrated => interpolation_num = 2 * call.interpolation_num
        /\ pc = "average" => Len(Y) = NCell * 2 * call.interpolation_num

RAbs(a) == IF RLt(a, RZero) THEN RSub(RZero, a) ELSE a

\* the steps k of a trajectory y at which some coordinate moves, up or down,
\* by the flatness threshold or more between row k and row k + 1
MovingSteps(y) ==
    {k \in 0..(Len(y) - 2) :
        \E col \in 1..Len(y[1]) :
            ~RLt(RAbs(RSub(At(y, k + 1)[col], At(y, k)[col])), FlatThreshold)}

Contiguous(q) == \A k \in 1..(Len(q) - 1) : q[k + 1] = q[k] + 1

\* C27: with an interpolation count (direction forward or backward), once the
\* first c cells are integrated the valid indices are the union over these
\* cells of the steps at which the trajectory moves by the flatness threshold
\* or more, whichever way the coordinates move, in increasing order, and they
\* form one contiguous range.
C27_ValidIdsAreMovingSteps ==
    (Interpolating /\ pc = "cells" /\ i >= 1
        /\ call.integration_direction \in {"forward", "backward"}) =>
        /\ valid_ids = SetToSeq(UNION {MovingSteps(OwnStates(c)) : c \in 0..(i - 1)})
        /\ Contiguous(valid_ids)

\* C30: a call of integrate_vf with an interpolation count, a valid direction
\* and a batch whose trajectories are all stationary (the zero field: every
\* initial state is a fixed point and the valid index set is empty) ends by
\* returning a time grid and states.
C30_FlatBatchStillReturns ==
    (Interpolating /\ Ended /\ NCell >= 1 /\ call.f = ZeroRow
        /\ call.integration_direction \in {"forward", "backward", "both"}) =>
        /\ pc = "done"
        /\ ret.t # NoValue
        /\ ret.Y # NoValue

----------------------------------------------------------------------------
(* Properties of the transit-time stage and of the cumulative action.      *)

\* C28: a call of least_action_path ends with the transit-time stage done on
\* the optimized path: the returned path is the seed's end points around the
\* interior the path stage found, which is also what the returned diagnostics
\* hold, and the returned action value is action(returned path, vf_func, D,
\* returned dt).
C28_TransitTimeStageKeepsPath ==
    LapEnded =>
        /\ pc = "done"
        /\ lap.ret.path_sol = ReshapePath(lap.ret.sol_dict, lap.dim, lap.path_0[1],
                                          Last(lap.path_0))
        /\ lap.ret.action_opt = Action(lap.ret.path_sol, lap.vf_func, lap.D,
                                       lap.ret.dt_sol)

\* the term of segment n of the object's path in its action
SegmentTerm(n) ==
    RMul(RDiv(obj.dt, RMul(RInt(2), obj.D)), Mismatch(obj.X, obj.func, obj.dt, n))

\* C29: for D > 0 and dt > 0 the cumulative action series of a LeastActionPath
\* is non-decreasing: entry k is entry k - 1 plus the term of the segment
\* (x[k-1], x[k]), which is >= 0, so that the prefixes recomputed from scratch
\* equal the incremental sum.
C29_CumulativeActionMonotone ==
    (prog = "LeastActionPath" /\ pc \in {"done", "returned", "raised"}
        /\ Positive(obj.D) /\ Positive(obj.dt)) =>
        \A k \in 2..Len(obj.X) :
            /\ RLe(RZero, SegmentTerm(k - 1))
            /\ obj._action[k] = RAdd(obj._action[k - 1], SegmentTerm(k - 1))
            /\ RLe(obj._action[k - 1], obj._action[k])

\* an object whose series grows over two segments has been built
C29_Witness ==
    /\ ObjectBuilt
    /\ Positive(obj.D) /\ Positive(obj.dt)
    /\ Len(obj.X) >= 3
    /\ RLt(obj._action[1], obj._action[2])
    /\ RLt(obj._action[2], obj._action[3])

====
